---------------------------- MODULE Spec2Model ----------------------------
(***************************************************************************)
(* Model of eventsource/listener.py: the EventSourceHandler objects, their *)
(* per-handler registry and buffers, the POST endpoint, the dispatch       *)
(* callback run by the IOLoop and the keepalive timer.                     *)
(*                                                                         *)
(* A handler object is what initialize() leaves behind: it owns its own    *)
(* _connected and _events dictionaries, its _retry slot, its keepalive     *)
(* timer and its HTTP response.  The transport that routes a request to a  *)
(* handler object is not part of the source: a request is served by a      *)
(* handler object that has served nothing yet (one fresh handler per       *)
(* request), and a POST may also be served by a handler object that served *)
(* a poll GET, which is the only way a POST can find its target in the     *)
(* registry it consults.                                                   *)
(*                                                                         *)
(* The module also holds eventsource/client.py: the EventSourceClient, its *)
(* poll loop, its streaming callback handle_stream, which is given the     *)
(* bytes of the response in chunks, and its completion callback            *)
(* handle_request.                                                         *)
(***************************************************************************)
EXTENDS Integers, Sequences, FiniteSets, TLC

\* ------------------------------------------------------------------ bounds
NumHandlers == 2
NumTargets == 2
MaxRequests == 3
MaxTicks == 1
MaxIdRequests == 5
MaxAttempts == 2
MaxPayloadLen == 3
MaxRoundTripPosts == 1
MaxRetryPosts == 4
MaxIdReadRequests == 4

Handlers == 1..NumHandlers
Targets == 1..NumTargets

\* ------------------------------------------------------- Event vocabulary
LISTEN == "poll"
FINISH == "close"
RETRY == "retry"

EventClasses == {"StringEvent", "JSONEvent", "StringIdEvent", "JSONIdEvent"}

\* the ACTIONS list of each event class
EventACTIONS(cls) ==
    IF cls \in {"StringIdEvent", "JSONIdEvent"}
    THEN {"ping", RETRY, FINISH}
    ELSE {"ping", FINISH}

\* the classes that inherit from JSONEvent
IsJSONClass(cls) == cls \in {"JSONEvent", "JSONIdEvent"}

\* the classes that inherit from EventId
IsIdClass(cls) == cls \in {"StringIdEvent", "JSONIdEvent"}

\* an absent value (None, or an attribute that is not set) and a present one
None == <<>>
Some(v) == <<v>>

\* ---------------------------------------------------------------- payloads
\* A request body is a sequence of characters.
NL == "\n"
Bodies ==
    { <<"7">>, <<"[", NL, "]">>, <<"x", NL, "7">> }

\* the actions a POST or a GET URL may carry
PostActions == {"ping", RETRY, FINISH, LISTEN}
GetActions == {LISTEN, "ping"}

\* str.split('\n'): the lines of s, empty lines kept
RECURSIVE split(_)
split(s) ==
    IF \A i \in 1..Len(s) : s[i] # NL
    THEN <<s>>
    ELSE LET k == CHOOSE i \in 1..Len(s) :
                      s[i] = NL /\ \A j \in 1..(i - 1) : s[j] # NL
         IN  <<SubSeq(s, 1, k - 1)>> \o split(SubSeq(s, k + 1, Len(s)))

\* s without its whitespace characters
RECURSIVE dropWs(_)
dropWs(s) ==
    IF s = <<>> THEN <<>>
    ELSE IF Head(s) = NL THEN dropWs(Tail(s))
    ELSE <<Head(s)>> \o dropWs(Tail(s))

\* a JSON value without whitespace: a number, [] or [value]
RECURSIVE jsonValue(_)
jsonValue(s) ==
    \/ (Len(s) > 0 /\ \A i \in 1..Len(s) : s[i] = "7")
    \/ /\ Len(s) >= 2
       /\ s[1] = "["
       /\ s[Len(s)] = "]"
       /\ (Len(s) = 2 \/ jsonValue(SubSeq(s, 2, Len(s) - 1)))

\* whether json_decode(s) returns (TRUE) or raises ValueError (FALSE)
json_valid(s) ==
    /\ ~ \E i, j \in 1..Len(s) :
            /\ i + 1 < j
            /\ s[i] = "7" /\ s[j] = "7"
            /\ \A k \in (i + 1)..(j - 1) : s[k] = NL
    /\ jsonValue(dropWs(s))

\* json_encode(json_decode(s)) for a valid s: the canonical one-line text
json_canonical(s) == dropWs(s)

\* int(line): whether it parses, and its value
int_ok(line) == Len(line) > 0 /\ \A i \in 1..Len(line) : line[i] = "7"

RECURSIVE int_val(_)
int_val(line) ==
    IF line = <<>> THEN 0
    ELSE 10 * int_val(SubSeq(line, 1, Len(line) - 1)) + 7

\* ------------------------------------------------------------------- state
VARIABLES
    event_class,     \* the event class the application was started with
    keepalive,       \* the keepalive period the application was started with
    _connected,      \* per handler: its dictionary handler -> target
    _events,         \* per handler: its dictionary target -> deque of events
    _retry,          \* per handler: the pending retry value, or None
    target,          \* per handler: self.target, unset until a poll GET
    running,         \* per handler: whether its PeriodicCallback is started
    finished,        \* per handler: whether its response has been finished
    closed,          \* per handler: whether the peer closed the connection
    out,             \* per handler: the frames written and flushed so far
    callbacks,       \* the IOLoop's pending callbacks (handlers, in order)
    EventId_cnt,     \* the class attribute EventId.cnt
    resp,            \* how the last request was answered
    posted,          \* history: the accepted POSTs, in order of acceptance
    nreq,            \* history: the number of requests served so far
    ticks,           \* history: the number of keepalive ticks so far
    ids,             \* history: the id: lines written, in order of emission
    faulted,         \* history, per handler: a write on its response raised
    dispatched,      \* history, per handler: retries processed, frames pushed
    id_reads,        \* history: the ids read, each with the event it was read of
    data_partial,    \* client: the bytes kept from chunks without a final \n
    last_event_id,   \* client: the last id field received, or None
    retry_timeout,   \* client: the reconnection delay, -1 for none
    keep_alive,      \* client: whether to reconnect after a failed attempt
    pc,              \* client: where poll() stands
    wire,            \* the bytes of the current response not yet received
    stream,          \* the bytes the server sends in every response
    retry,           \* history: the retry argument the client was built with
    attempts,        \* history: the number of GETs the client issued
    response,        \* history: how the last attempt ended
    delivered,       \* history: the events passed to the callback
    client_raised,   \* history: handle_stream or poll raised
    _headers,        \* client: the headers dictionary of its requests
    sent             \* history: the headers of every GET the client issued

vars ==
    << event_class, keepalive, _connected, _events, _retry, target, running,
       finished, closed, out, callbacks, EventId_cnt, resp, posted, nreq,
       ticks, ids, faulted, dispatched, id_reads, data_partial, last_event_id, retry_timeout,
       keep_alive, pc, wire, stream, retry, attempts, response, delivered,
       client_raised, _headers, sent >>

\* the variables of the client, and those of the server
client_vars ==
    << data_partial, last_event_id, retry_timeout, keep_alive, pc, wire,
       stream, retry, attempts, response, delivered, client_raised,
       _headers, sent >>
server_vars ==
    << event_class, keepalive, _connected, _events, _retry, target, running,
       finished, closed, out, callbacks, EventId_cnt, resp, posted, nreq,
       ticks, ids, faulted, dispatched, id_reads >>

KeepalivePeriods == {0, 30}

\* the values written for an id: line: unicode(event.id)
IdText(n) == [isNone |-> FALSE, n |-> n]
IdTextNone == [isNone |-> TRUE, n |-> 0]

\* the fields of handler h, as one record, with the class counter
Self(h) ==
    [ _connected |-> _connected[h], _events |-> _events[h],
      _retry |-> _retry[h], target |-> target[h], running |-> running[h],
      finished |-> finished[h], out |-> out[h], cnt |-> EventId_cnt,
      ids |-> ids, faulted |-> faulted[h], dispatched |-> dispatched[h],
      id_reads |-> id_reads, raised |-> FALSE ]

\* handler h's fields become those of record st
Store(h, st) ==
    /\ _connected' = [_connected EXCEPT ![h] = st._connected]
    /\ _events' = [_events EXCEPT ![h] = st._events]
    /\ _retry' = [_retry EXCEPT ![h] = st._retry]
    /\ target' = [target EXCEPT ![h] = st.target]
    /\ running' = [running EXCEPT ![h] = st.running]
    /\ finished' = [finished EXCEPT ![h] = st.finished]
    /\ out' = [out EXCEPT ![h] = st.out]
    /\ EventId_cnt' = st.cnt
    /\ ids' = st.ids
    /\ faulted' = [faulted EXCEPT ![h] = st.faulted]
    /\ dispatched' = [dispatched EXCEPT ![h] = st.dispatched]
    /\ id_reads' = st.id_reads

\* a dictionary d with d[k] = v set, and with key k deleted
DictSet(d, k, v) == [x \in DOMAIN d \cup {k} |-> IF x = k THEN v ELSE d[x]]
DictDel(d, k) == [x \in DOMAIN d \ {k} |-> d[x]]
EmptyDict == [x \in {} |-> 0]

\* ------------------------------------------------------------ Event classes
\* Event.set_value / JSONEvent.set_value: the stored _value; a JSON class
\* stores the decoded document (held here as its canonical text)
set_value(cls, v) == IF IsJSONClass(cls) THEN json_canonical(v) ELSE v

\* whether constructing an event of class cls with payload v raises ValueError
set_value_raises(cls, v) == IsJSONClass(cls) /\ ~json_valid(v)

\* StringEvent.get_value / JSONEvent.get_value: the data lines of an event
get_value(cls, event) ==
    IF IsJSONClass(cls) THEN <<event.value>> ELSE split(event.value)

\* a get_id that takes the next counter value at every read
get_id_fresh(event, cnt) ==
    [id |-> cnt, event |-> [event EXCEPT !.cnt = Some(cnt)], cnt |-> cnt + 1]

\* EventId.get_id: the id read, the event and the class counter afterwards
get_id(event, cnt) ==
    LET mine == IF event.cnt = None THEN cnt ELSE event.cnt[1]
    IN  IF mine = cnt
        THEN [id |-> cnt, event |-> [event EXCEPT !.cnt = Some(cnt)],
              cnt |-> cnt + 1]
        ELSE [id |-> mine, event |-> event, cnt |-> cnt]

\* ------------------------------------------------------- EventSourceHandler
\* is_connected: target in self._connected.values()
is_connected(st, t) ==
    \E k \in DOMAIN st._connected : st._connected[k] = t

\* set_connected
set_connected(h, st, t) ==
    [st EXCEPT !._connected = DictSet(@, h, t),
               !._events = DictSet(@, t, <<>>)]

\* set_disconnected that forgets del(self._connected[self])
set_disconnected_keeps_entry(h, st) ==
    IF h \notin DOMAIN st._connected THEN st
    ELSE LET t == st._connected[h]
             st1 == [st EXCEPT !.running = FALSE]
         IN  IF t \notin DOMAIN st1._events THEN st1
             ELSE [st1 EXCEPT !._events = DictDel(@, t)]

\* set_disconnected without its except clause: the KeyError propagates
set_disconnected_unguarded(h, st) ==
    IF h \notin DOMAIN st._connected THEN [st EXCEPT !.raised = TRUE]
    ELSE LET t == st._connected[h]
             st1 == [st EXCEPT !.running = FALSE]
         IN  IF t \notin DOMAIN st1._events THEN [st1 EXCEPT !.raised = TRUE]
             ELSE [st1 EXCEPT !._events = DictDel(@, t),
                              !._connected = DictDel(@, h)]

\* set_disconnected without del(self._events[target])
set_disconnected_keeps_buffer(h, st) ==
    IF h \notin DOMAIN st._connected THEN st
    ELSE [st EXCEPT !.running = FALSE, !._connected = DictDel(@, h)]

\* set_disconnected without self._keepalive.stop()
set_disconnected_keeps_timer(h, st) ==
    IF h \notin DOMAIN st._connected THEN st
    ELSE LET t == st._connected[h]
         IN  IF t \notin DOMAIN st._events THEN st
             ELSE [st EXCEPT !._events = DictDel(@, t),
                             !._connected = DictDel(@, h)]

\* set_disconnected: a KeyError ends it where it is raised and is logged
set_disconnected(h, st) ==
    IF h \notin DOMAIN st._connected THEN st
    ELSE LET t == st._connected[h]
             st1 == [st EXCEPT !.running = FALSE]
         IN  IF t \notin DOMAIN st1._events THEN st1
             ELSE [st1 EXCEPT !._events = DictDel(@, t),
                              !._connected = DictDel(@, h)]

\* RequestHandler.finish(), as called by the handler
finish(st) == [st EXCEPT !.finished = TRUE]

\* a send_error that also ends the event source channel of the handler
send_error_disconnects(h, st) == finish(set_disconnected(h, st))

\* RequestHandler.send_error(), which ends in write_error's self.finish()
send_error(h, st) == finish(st)

\* push without self._retry = None
push_keeps_retry(st, event) ==
    LET cls == event_class
        r1 == IF IsIdClass(cls) THEN get_id(event, st.cnt)
              ELSE [id |-> 0, event |-> event, cnt |-> st.cnt]
        r2 == IF IsIdClass(cls) THEN get_id(r1.event, r1.cnt) ELSE r1
        idtext == IF IsIdClass(cls) THEN IdText(r2.id) ELSE IdTextNone
        frame == [ kind |-> "event", id |-> Some(idtext), retry |-> st._retry,
                   event |-> event.action, data |-> get_value(cls, event),
                   seq |-> event.seq ]
        reads1 == IF IsIdClass(cls) THEN {[seq |-> event.seq, id |-> r1.id]}
                  ELSE {}
        reads2 == IF IsIdClass(cls) THEN {[seq |-> event.seq, id |-> r2.id]}
                  ELSE {}
    IN  IF st.finished
        THEN [st EXCEPT !.cnt = r1.cnt, !.raised = TRUE, !.faulted = TRUE,
                        !.id_reads = @ \cup reads1]
        ELSE [st EXCEPT !.cnt = r2.cnt,
                        !.out = Append(@, frame),
                        !.ids = Append(@, idtext),
                        !.dispatched = Append(@, None),
                        !.id_reads = @ \cup reads1 \cup reads2]

\* push: the frame of an event; a write on a finished response raises
push(st, event) ==
    LET cls == event_class
        r1 == IF IsIdClass(cls) THEN get_id(event, st.cnt)
              ELSE [id |-> 0, event |-> event, cnt |-> st.cnt]
        r2 == IF IsIdClass(cls) THEN get_id(r1.event, r1.cnt) ELSE r1
        idtext == IF IsIdClass(cls) THEN IdText(r2.id) ELSE IdTextNone
        frame == [ kind |-> "event", id |-> Some(idtext), retry |-> st._retry,
                   event |-> event.action, data |-> get_value(cls, event),
                   seq |-> event.seq ]
        reads1 == IF IsIdClass(cls) THEN {[seq |-> event.seq, id |-> r1.id]}
                  ELSE {}
        reads2 == IF IsIdClass(cls) THEN {[seq |-> event.seq, id |-> r2.id]}
                  ELSE {}
    IN  IF st.finished
        THEN [st EXCEPT !.cnt = r1.cnt, !.raised = TRUE, !.faulted = TRUE,
                        !.id_reads = @ \cup reads1]
        ELSE [st EXCEPT !.cnt = r2.cnt, !._retry = None,
                        !.out = Append(@, frame),
                        !.ids = Append(@, idtext),
                        !.dispatched = Append(@, None),
                        !.id_reads = @ \cup reads1 \cup reads2]

\* buffer_event: the deque of target t with a new event appended
buffer_event(st, t, action, value, seq) ==
    [st EXCEPT !._events[t] =
        Append(@, [ target |-> t, action |-> action,
                    value |-> set_value(event_class, value),
                    cnt |-> None, seq |-> seq ])]

\* a generator that yields the rightmost event and removes the leftmost
generator_pop_mismatch(buf) ==
    [event |-> buf[Len(buf)], rest |-> Tail(buf)]

\* _event_generator: deque.pop() yields the rightmost event and removes it
generator_pop(buf) ==
    [event |-> buf[Len(buf)], rest |-> SubSeq(buf, 1, Len(buf) - 1)]

\* _event_loop, from the test of is_connected on
RECURSIVE event_loop_body(_, _)
event_loop_body(h, st) ==
    LET t == st.target[1]
        buf == st._events[t]
    IN  IF Len(buf) = 0 THEN st
        ELSE
          LET event == generator_pop(buf).event
              st1 == [st EXCEPT !._events[t] = generator_pop(buf).rest]
              line == get_value(event_class, event)[1]
          IN  IF /\ RETRY \in EventACTIONS(event_class)
                 /\ event.action = RETRY
                 /\ int_ok(line)
              THEN event_loop_body(h,
                       [st1 EXCEPT !._retry = Some(int_val(line)),
                                   !.dispatched = Append(@, Some(int_val(line)))])
              ELSE IF event.action = FINISH
              THEN finish(set_disconnected(h, st1))
              ELSE LET st2 == push(st1, event)
                   IN  IF st2.raised THEN st2 ELSE event_loop_body(h, st2)

\* an _event_loop that finishes the response when its target is gone
_event_loop_finishes(h, st) ==
    IF st.target # None /\ is_connected(st, st.target[1])
    THEN event_loop_body(h, st)
    ELSE finish(st)

\* _event_loop
_event_loop(h, st) ==
    IF st.target # None /\ is_connected(st, st.target[1])
    THEN event_loop_body(h, st)
    ELSE st

\* the answer to a request
Answer(h, method, t, status, mesg) ==
    [ h |-> h, method |-> method, target |-> t, status |-> status,
      mesg |-> mesg ]

\* whether post() accepts the request
post_accepts(st, action, t, body) ==
    /\ is_connected(st, t)
    /\ action \in EventACTIONS(event_class)
    /\ ~set_value_raises(event_class, body)

\* a post() that looks at the action before it looks at the target
post_answer_action_first(h, st, action, t, body) ==
    IF action \notin EventACTIONS(event_class)
    THEN Answer(h, "POST", t, 404, "Unknown action requested")
    ELSE IF ~is_connected(st, t)
    THEN Answer(h, "POST", t, 404, "Target is not connected")
    ELSE IF set_value_raises(event_class, body)
    THEN Answer(h, "POST", t, 400, "Data is not properly formatted")
    ELSE Answer(h, "POST", t, 200, "")

\* the answer post() gives
post_answer(h, st, action, t, body) ==
    IF ~is_connected(st, t)
    THEN Answer(h, "POST", t, 404, "Target is not connected")
    ELSE IF action \notin EventACTIONS(event_class)
    THEN Answer(h, "POST", t, 404, "Unknown action requested")
    ELSE IF set_value_raises(event_class, body)
    THEN Answer(h, "POST", t, 400, "Data is not properly formatted")
    ELSE Answer(h, "POST", t, 200, "")

\* Handlers that served nothing yet are interchangeable, and so are targets
\* that were never polled: the next one used is the lowest-numbered one.
Used(h) == target[h] # None \/ finished[h] \/ closed[h]
Fresh(h) == ~Used(h) /\ \A g \in Handlers : g < h => Used(g)
Nameable(t) ==
    \A u \in Targets : u < t => \E g \in Handlers : target[g] = Some(u)

\* the handler served a poll GET
Polled(h) == target[h] # None

\* post
post(h, action, t, body) ==
    /\ Fresh(h) \/ Polled(h)
    /\ Nameable(t)
    /\ nreq' = nreq + 1
    /\ LET st == Self(h)
           ans == post_answer(h, st, action, t, body)
       IN  /\ resp' = ans
           /\ IF ans.status = 200
              THEN /\ Store(h, buffer_event(st, t, action, body, Len(posted) + 1))
                   /\ callbacks' = Append(callbacks, h)
                   /\ posted' = Append(posted,
                          [h |-> h, target |-> t, action |-> action, body |-> body])
              ELSE /\ Store(h, send_error(h, st))
                   /\ UNCHANGED <<callbacks, posted>>
    /\ UNCHANGED <<event_class, keepalive, closed, ticks>>
    /\ UNCHANGED client_vars

\* get
get(h, action, t) ==
    /\ Fresh(h)
    /\ Nameable(t)
    /\ nreq' = nreq + 1
    /\ LET st == Self(h)
           st1 == [st EXCEPT !.target = Some(t)]
       IN  IF action = LISTEN
           THEN IF is_connected(st1, t)
                THEN /\ Store(h, send_error(h, st1))
                     /\ resp' = Answer(h, "GET", t, 423, "Target is already connected")
                ELSE /\ Store(h, [set_connected(h, st1, t) EXCEPT
                                     !.running = (keepalive # 0)])
                     /\ resp' = Answer(h, "GET", t, 200, "")
           ELSE \* redirect() raises once the headers have been written
                IF Len(st.out) > 0
                THEN /\ Store(h, st)
                     /\ resp' = Answer(h, "GET", t, 500, "Cannot redirect")
                ELSE /\ Store(h, finish(st))
                     /\ resp' = Answer(h, "GET", t, 301, "")
    /\ UNCHANGED <<event_class, keepalive, closed, callbacks, posted, ticks>>
    /\ UNCHANGED client_vars

\* on_connection_close: the subscriber of handler h closed its connection
on_connection_close(h) ==
    /\ Polled(h)
    /\ ~closed[h]
    /\ closed' = [closed EXCEPT ![h] = TRUE]
    /\ Store(h, set_disconnected(h, Self(h)))
    /\ UNCHANGED <<event_class, keepalive, callbacks, resp, posted, nreq, ticks>>
    /\ UNCHANGED client_vars

\* the IOLoop runs its oldest pending callback: a handler's _event_loop
run_callback ==
    /\ callbacks # <<>>
    /\ Store(Head(callbacks), _event_loop(Head(callbacks), Self(Head(callbacks))))
    /\ callbacks' = Tail(callbacks)
    /\ UNCHANGED <<event_class, keepalive, closed, resp, posted, nreq, ticks>>
    /\ UNCHANGED client_vars

\* event.id is read of the i-th event buffered for target t at handler h
read_id(h, t, i) ==
    /\ IsIdClass(event_class)
    /\ t \in DOMAIN _events[h]
    /\ i \in 1..Len(_events[h][t])
    /\ LET r == get_id(_events[h][t][i], EventId_cnt)
       IN  /\ _events' = [_events EXCEPT ![h][t][i] = r.event]
           /\ EventId_cnt' = r.cnt
           /\ id_reads' = id_reads \cup {[seq |-> r.event.seq, id |-> r.id]}
    /\ UNCHANGED << event_class, keepalive, _connected, _retry, target, running,
                    finished, closed, out, callbacks, resp, posted, nreq,
                    ticks, ids, faulted, dispatched >>
    /\ UNCHANGED client_vars

\* push_keepalive: a tick of handler h's PeriodicCallback
push_keepalive(h) ==
    /\ running[h]
    /\ ticks < MaxTicks
    /\ ticks' = ticks + 1
    /\ IF finished[h]
       THEN /\ faulted' = [faulted EXCEPT ![h] = TRUE]
            /\ UNCHANGED out
       ELSE /\ out' = [out EXCEPT ![h] = Append(@,
                [ kind |-> "keepalive", id |-> None, retry |-> None,
                  event |-> "", data |-> <<>>, seq |-> 0 ])]
            /\ UNCHANGED faulted
    /\ UNCHANGED << event_class, keepalive, _connected, _events, _retry, target,
                    running, finished, closed, callbacks, EventId_cnt, resp,
                    posted, nreq, ids, dispatched, id_reads >>
    /\ UNCHANGED client_vars

\* ---------------------------------------------------------------- client.py
CR == "\r"

\* the str methods handle_stream uses, on sequences of characters
IsSpace(c) == c \in {" ", "\t", CR, NL}

RECURSIVE lstrip(_)
lstrip(s) == IF s # <<>> /\ IsSpace(Head(s)) THEN lstrip(Tail(s)) ELSE s

RECURSIVE rstrip(_)
rstrip(s) ==
    IF s # <<>> /\ IsSpace(s[Len(s)])
    THEN rstrip(SubSeq(s, 1, Len(s) - 1))
    ELSE s

strip(s) == lstrip(rstrip(s))

endswith_newline(s) == s # <<>> /\ s[Len(s)] = NL

\* str.splitlines(): lines end at \r\n, \n or \r; no empty last line
RECURSIVE splitlines(_)
splitlines(s) ==
    IF s = <<>> THEN <<>>
    ELSE IF \A i \in 1..Len(s) : s[i] \notin {CR, NL} THEN <<s>>
    ELSE LET k == CHOOSE i \in 1..Len(s) :
                      s[i] \in {CR, NL} /\ \A j \in 1..(i - 1) : s[j] \notin {CR, NL}
             n == IF s[k] = CR /\ k < Len(s) /\ s[k + 1] = NL THEN k + 2 ELSE k + 1
         IN  <<SubSeq(s, 1, k - 1)>> \o splitlines(SubSeq(s, n, Len(s)))

\* line.split(":", 1): whether it has two parts, and the two parts
HasColon(line) == \E i \in 1..Len(line) : line[i] = ":"
ColonAt(line) ==
    CHOOSE i \in 1..Len(line) :
        line[i] = ":" /\ \A j \in 1..(i - 1) : line[j] # ":"
FieldOf(line) == strip(SubSeq(line, 1, ColonAt(line) - 1))
ValueOf(line) == SubSeq(line, ColonAt(line) + 1, Len(line))

\* int(value): blanks around, an optional sign, then decimal digits
DigitChars == <<"0", "1", "2", "3", "4", "5", "6", "7", "8", "9">>
IsDigit(c) == \E n \in 1..10 : DigitChars[n] = c
DigitVal(c) == (CHOOSE n \in 1..10 : DigitChars[n] = c) - 1
Unsigned(v) ==
    LET t == strip(v)
    IN  IF t # <<>> /\ Head(t) \in {"+", "-"} THEN Tail(t) ELSE t
int_raises(v) ==
    Unsigned(v) = <<>> \/ \E i \in 1..Len(Unsigned(v)) : ~IsDigit(Unsigned(v)[i])
RECURSIVE digits_val(_)
digits_val(d) ==
    IF d = <<>> THEN 0
    ELSE 10 * digits_val(SubSeq(d, 1, Len(d) - 1)) + DigitVal(d[Len(d)])
int(v) ==
    IF strip(v)[1] = "-" THEN 0 - digits_val(Unsigned(v)) ELSE digits_val(Unsigned(v))

\* the field names of the stream
F_event == <<"e", "v", "e", "n", "t">>
F_data == <<"d", "a", "t", "a">>
F_id == <<"i", "d">>
F_retry == <<"r", "e", "t", "r", "y">>

\* Event(): a received event
NewEvent == [name |-> None, data |-> None, id |-> None]

\* a Python truth test of a string that may be None
Truthy(opt) == opt # None /\ opt[1] # <<>>

\* the client object, as one record, with the event being built
ClientSelf ==
    [ data_partial |-> data_partial, last_event_id |-> last_event_id,
      retry_timeout |-> retry_timeout, delivered |-> delivered,
      raised |-> FALSE, event |-> NewEvent ]

\* the client's fields become those of record cl
ClientStore(cl) ==
    /\ data_partial' = cl.data_partial
    /\ last_event_id' = cl.last_event_id
    /\ retry_timeout' = cl.retry_timeout
    /\ delivered' = cl.delivered
    /\ client_raised' = (client_raised \/ cl.raised)

\* handle_stream, one line of the message: the body of its for loop
handle_line(cl, line) ==
    IF ~HasColon(line) THEN [cl EXCEPT !.raised = TRUE]
    ELSE LET field == FieldOf(line)
             value == ValueOf(line)
         IN  IF field = F_event
             THEN [cl EXCEPT !.event.name = Some(lstrip(value))]
             ELSE IF field = F_data
             THEN [cl EXCEPT !.event.data =
                      IF @ = None THEN Some(lstrip(value))
                      ELSE Some(@[1] \o <<NL>> \o lstrip(value))]
             ELSE IF field = F_id
             THEN [cl EXCEPT !.event.id = Some(lstrip(value)),
                             !.last_event_id = Some(lstrip(value))]
             ELSE IF field = F_retry
             THEN IF int_raises(value) THEN cl
                  ELSE [cl EXCEPT !.retry_timeout = int(value)]
             ELSE IF field = <<>>
             THEN cl
             ELSE [cl EXCEPT !.raised = TRUE]

\* handle_stream, its for loop: an exception ends it
RECURSIVE handle_lines(_, _)
handle_lines(cl, lines) ==
    IF lines = <<>> \/ cl.raised THEN cl
    ELSE handle_lines(handle_line(cl, Head(lines)), Tail(lines))

\* handle_stream
handle_stream(cl, message) ==
    IF ~endswith_newline(message)
    THEN [cl EXCEPT !.data_partial =
             IF Truthy(@) THEN Some(@[1] \o message) ELSE Some(message)]
    ELSE LET whole == IF Truthy(cl.data_partial)
                      THEN cl.data_partial[1] \o message
                      ELSE message
             cl1 == IF Truthy(cl.data_partial)
                    THEN [cl EXCEPT !.data_partial = None]
                    ELSE cl
             cl2 == handle_lines([cl1 EXCEPT !.event = NewEvent],
                                 splitlines(strip(whole)))
         IN  IF ~cl2.raised /\ cl2.event.name # None
             THEN [cl2 EXCEPT !.delivered = Append(@, cl2.event)]
             ELSE cl2

\* how an attempt may end: the response handed to handle_request
Responses ==
    { [code |-> 200, error |-> FALSE], [code |-> 204, error |-> FALSE],
      [code |-> 404, error |-> TRUE], [code |-> 503, error |-> TRUE],
      [code |-> 599, error |-> TRUE] }
NoResponse == [code |-> 0, error |-> FALSE]

\* a handle_request that gives up after any failed attempt
handle_request_gives_up(rt, ka, r) ==
    IF r.code \in {200, 500, 502, 503, 504} THEN rt ELSE 0 - 1

\* handle_request: the retry_timeout it leaves
handle_request(rt, ka, r) ==
    IF r.code \in {200, 500, 502, 503, 504} THEN rt
    ELSE IF r.error THEN (IF ~ka THEN 0 - 1 ELSE rt)
    ELSE (IF ~ka THEN 0 - 1 ELSE rt)

\* the byte streams a response may carry
PingHi ==
    << "e", "v", "e", "n", "t", ":", " ", "p", "i", "n", "g", CR, NL, "d",
    "a", "t", "a", ":", " ", "h", "i", CR, NL, CR, NL >>

TwoFrames ==
    << "i", "d", ":", " ", "7", CR, NL, "e", "v", "e", "n", "t", ":", " ",
    "a", CR, NL, CR, NL, "r", "e", "t", "r", "y", ":", " ", "-", "1", CR,
    NL, "e", "v", "e", "n", "t", ":", " ", "b", CR, NL, CR, NL >>

EmptyId ==
    << "i", "d", ":", CR, NL, "e", "v", "e", "n", "t", ":", " ", "a", CR, NL,
       CR, NL >>

Streams == {PingHi, TwoFrames, EmptyId}

\* the retry argument of the constructor
RetryArgs == {0 - 1, 0, 2500}

\* a poll() that leaves its loop when retry_timeout is zero or less
poll_leaves_at_zero(rt) == rt <= 0

\* poll: the test that ends its loop
poll_leaves(rt) == rt = 0 - 1

\* self._headers as __init__ leaves it; the entry Last-Event-ID is absent
InitialHeaders == [Accept |-> "text/event-stream", LastEventID |-> None]

\* _get_headers: the dictionary, with Last-Event-ID set if an id is known
_get_headers(headers, id) ==
    IF Truthy(id) THEN [headers EXCEPT !.LastEventID = id] ELSE headers

\* poll: it issues a GET, and when the IOLoop was stopped it leaves the loop
\* or sleeps (a negative sleep raises) and issues the next GET
poll ==
    /\ pc \in {"idle", "stopped"}
    /\ IF pc = "stopped" /\ poll_leaves(retry_timeout)
       THEN /\ pc' = "done"
            /\ UNCHANGED <<wire, attempts, client_raised, _headers, sent>>
       ELSE IF pc = "stopped" /\ retry_timeout < 0
       THEN /\ pc' = "raised"
            /\ client_raised' = TRUE
            /\ UNCHANGED <<wire, attempts, _headers, sent>>
       ELSE /\ attempts < MaxAttempts
            /\ attempts' = attempts + 1
            /\ pc' = "running"
            /\ wire' = stream
            /\ _headers' = _get_headers(_headers, last_event_id)
            /\ sent' = Append(sent, _get_headers(_headers, last_event_id))
            /\ UNCHANGED client_raised
    /\ UNCHANGED << data_partial, last_event_id, retry_timeout, keep_alive,
                    stream, retry, response, delivered >>
    /\ UNCHANGED server_vars

\* the transport hands the next n bytes of the response to handle_stream
stream_chunk(n) ==
    /\ pc = "running"
    /\ n \in 1..Len(wire)
    /\ ClientStore(handle_stream(ClientSelf, SubSeq(wire, 1, n)))
    /\ wire' = SubSeq(wire, n + 1, Len(wire))
    /\ UNCHANGED << keep_alive, pc, stream, retry, attempts, response,
                    _headers, sent >>
    /\ UNCHANGED server_vars

\* the attempt ends with response r: handle_request, which stops the IOLoop
request_done(r) ==
    /\ pc = "running"
    /\ retry_timeout' = handle_request(retry_timeout, keep_alive, r)
    /\ response' = r
    /\ pc' = "stopped"
    /\ wire' = <<>>
    /\ UNCHANGED << data_partial, last_event_id, keep_alive, stream, retry,
                    attempts, delivered, client_raised, _headers, sent >>
    /\ UNCHANGED server_vars

\* end, called from a callback while the IOLoop runs
end ==
    /\ pc = "running"
    /\ retry_timeout' = 0 - 1
    /\ response' = NoResponse
    /\ pc' = "stopped"
    /\ wire' = <<>>
    /\ UNCHANGED << data_partial, last_event_id, keep_alive, stream, retry,
                    attempts, delivered, client_raised, _headers, sent >>
    /\ UNCHANGED server_vars

\* ------------------------------------------------- the bytes of the stream
\* unicode(n) for a natural number n
RECURSIVE NatChars(_)
NatChars(n) ==
    IF n < 10 THEN <<DigitChars[n + 1]>>
    ELSE NatChars(n \div 10) \o <<DigitChars[(n % 10) + 1]>>

\* unicode(event.id): the text of an id, "None" for the id None
IdChars(idtext) ==
    IF idtext.isNone THEN <<"N", "o", "n", "e">> ELSE NatChars(idtext.n)

\* unicode(event.action)
ActionChars(a) ==
    CASE a = "ping" -> <<"p", "i", "n", "g">>
      [] a = RETRY -> F_retry
      [] a = FINISH -> <<"c", "l", "o", "s", "e">>
      [] a = LISTEN -> <<"p", "o", "l", "l">>

\* the bytes of the data: lines of a frame
RECURSIVE DataBytes(_)
DataBytes(lines) ==
    IF lines = <<>> THEN <<>>
    ELSE F_data \o <<":", " ">> \o Head(lines) \o <<CR, NL>>
             \o DataBytes(Tail(lines))

\* the bytes push and push_keepalive write for a frame
FrameBytes(frame) ==
    IF frame.kind = "keepalive"
    THEN <<":", " ", "k", "e", "e", "p", "a", "l", "i", "v", "e", " ", "1",
           ".", "5", CR, NL, CR, NL>>
    ELSE (IF frame.id # None
          THEN F_id \o <<":", " ">> \o IdChars(frame.id[1]) \o <<CR, NL>>
          ELSE <<>>)
         \o (IF frame.retry # None
             THEN F_retry \o <<":", " ">> \o NatChars(frame.retry[1]) \o <<CR, NL>>
             ELSE <<>>)
         \o F_event \o <<":", " ">> \o ActionChars(frame.event) \o <<CR, NL>>
         \o DataBytes(frame.data)
         \o <<CR, NL>>

\* the bytes of a sequence of frames
RECURSIVE BytesOf(_)
BytesOf(frames) ==
    IF frames = <<>> THEN <<>>
    ELSE FrameBytes(Head(frames)) \o BytesOf(Tail(frames))

\* the transport hands the client, which is connected to handler h, the
\* bytes flushed on h's stream that it has not handed over yet
transport(h) ==
    /\ pc = "running"
    /\ Len(stream) < Len(BytesOf(out[h]))
    /\ wire' = wire \o SubSeq(BytesOf(out[h]), Len(stream) + 1,
                              Len(BytesOf(out[h])))
    /\ stream' = BytesOf(out[h])
    /\ UNCHANGED << data_partial, last_event_id, retry_timeout, keep_alive, pc,
                    retry, attempts, response, delivered, client_raised,
                    _headers, sent >>
    /\ UNCHANGED server_vars

\* EventSourceClient.__init__
ClientConstructed(r, ka, bytes) ==
    /\ data_partial = None
    /\ last_event_id = None
    /\ retry_timeout = r
    /\ keep_alive = ka
    /\ pc = "idle"
    /\ wire = <<>>
    /\ stream = bytes
    /\ retry = r
    /\ attempts = 0
    /\ response = NoResponse
    /\ delivered = <<>>
    /\ client_raised = FALSE
    /\ _headers = InitialHeaders
    /\ sent = <<>>

\* ------------------------------------------------------------ specification
\* initialize, for every handler object, under one application configuration
HandlersInit ==
    /\ event_class \in EventClasses
    /\ keepalive \in KeepalivePeriods
    /\ _connected = [h \in Handlers |-> EmptyDict]
    /\ _events = [h \in Handlers |-> EmptyDict]
    /\ _retry = [h \in Handlers |-> None]
    /\ target = [h \in Handlers |-> None]
    /\ running = [h \in Handlers |-> FALSE]
    /\ finished = [h \in Handlers |-> FALSE]
    /\ closed = [h \in Handlers |-> FALSE]
    /\ out = [h \in Handlers |-> <<>>]
    /\ callbacks = <<>>
    /\ EventId_cnt = 0
    /\ resp = Answer(0, "", 0, 0, "")
    /\ posted = <<>>
    /\ nreq = 0
    /\ ticks = 0
    /\ ids = <<>>
    /\ faulted = [h \in Handlers |-> FALSE]
    /\ dispatched = [h \in Handlers |-> <<>>]
    /\ id_reads = {}

\* the server, with a client that is constructed and never polls
Init == HandlersInit /\ ClientConstructed(0, FALSE, <<>>)

Post ==
    /\ nreq < MaxRequests
    /\ \E h \in Handlers, a \in PostActions, t \in Targets, b \in Bodies :
            post(h, a, t, b)
Get ==
    /\ nreq < MaxRequests
    /\ \E h \in Handlers, a \in GetActions, t \in Targets : get(h, a, t)
ConnectionClose == \E h \in Handlers : on_connection_close(h)
RunCallback == run_callback
Keepalive == \E h \in Handlers : push_keepalive(h)

Next == Post \/ Get \/ ConnectionClose \/ RunCallback \/ Keepalive

Spec == Init /\ [][Next]_vars

\* the IOLoop runs every callback it was given
FairSpec == Spec /\ WF_vars(RunCallback)

\* The application started with an id-enabled event class, every request
\* body being the one-line text 7: a narrower application, followed further.
IdBody == <<"7">>
IdInit == Init /\ IsIdClass(event_class)
IdPost ==
    /\ nreq < MaxIdRequests
    /\ \E h \in Handlers, a \in PostActions, t \in Targets :
            post(h, a, t, IdBody)
IdGet ==
    /\ nreq < MaxIdRequests
    /\ \E h \in Handlers, a \in GetActions, t \in Targets : get(h, a, t)
IdNext == IdPost \/ IdGet \/ ConnectionClose \/ RunCallback \/ Keepalive
IdSpec == IdInit /\ [][IdNext]_vars

\* An application with an id class whose events' ids are also read while they
\* are buffered, as often as one likes.
IdReadGet ==
    /\ nreq < MaxIdReadRequests
    /\ \E h \in Handlers, t \in Targets : get(h, LISTEN, t)
IdReadPost ==
    /\ nreq < MaxIdReadRequests
    /\ \E h \in Handlers, t \in Targets : post(h, "ping", t, IdBody)
ReadId ==
    \E h \in Handlers, t \in Targets, i \in 1..MaxIdReadRequests :
        read_id(h, t, i)
IdReadNext == IdReadGet \/ IdReadPost \/ RunCallback \/ ReadId
IdReadSpec == IdInit /\ [][IdReadNext]_vars

\* The client, against a server that sends it byte streams and nothing else.
ClientInit ==
    /\ HandlersInit
    /\ event_class = "StringEvent"
    /\ keepalive = 0
    /\ \E r \in RetryArgs, ka \in BOOLEAN, bytes \in Streams :
          ClientConstructed(r, ka, bytes)
Poll == poll
HandleStream == \E n \in 1..Len(wire) : stream_chunk(n)
HandleRequest == \E r \in Responses : request_done(r)
End == end
ClientNext == Poll \/ HandleStream \/ HandleRequest \/ End
ClientSpec == ClientInit /\ [][ClientNext]_vars

\* A StringIdEvent server with one subscriber, which is sent pings and retries
RetryBodies == { <<"7">>, <<"7", "7">>, <<"x">> }
RetryInit == Init /\ event_class = "StringIdEvent" /\ keepalive = 0
RetryGet == nreq = 0 /\ get(1, LISTEN, 1)
RetryPost ==
    /\ nreq < 1 + MaxRetryPosts
    /\ \E a \in {"ping", RETRY} : \E b \in RetryBodies : post(1, a, 1, b)
RetryNext == RetryGet \/ RetryPost \/ RunCallback
RetrySpec == RetryInit /\ [][RetryNext]_vars

\* A StringEvent server and a client connected to the stream of handler 1:
\* one payload is posted, dispatched, carried to the client as one chunk.
PayloadChars == {"x", " ", NL}
Payloads ==
    UNION { [1..n -> PayloadChars] : n \in 0..MaxPayloadLen }
RoundTripInit ==
    /\ HandlersInit
    /\ event_class = "StringEvent"
    /\ keepalive = 0
    /\ ClientConstructed(0, FALSE, <<>>)
RoundTripGet == nreq = 0 /\ get(1, LISTEN, 1)
RoundTripPost ==
    /\ nreq < 1 + MaxRoundTripPosts
    /\ \E b \in Payloads : post(1, "ping", 1, b)
Transport == \E h \in Handlers : transport(h)
WholeChunk == wire # <<>> /\ stream_chunk(Len(wire))
RoundTripNext ==
    RoundTripGet \/ RoundTripPost \/ RunCallback \/ Poll \/ Transport
        \/ WholeChunk
RoundTripSpec == RoundTripInit /\ [][RoundTripNext]_vars

\* ------------------------------------------------------------------ claims
\* handler h holds an entry for itself in the registry it consults
Registered(h) == h \in DOMAIN _connected[h]

\* the positions of the event frames on handler h's stream
EventFrames(h) == {i \in 1..Len(out[h]) : out[h][i].kind = "event"}

\* the k-th accepted POST has a frame on the stream of the handler it reached
Emitted(k) ==
    \E i \in EventFrames(posted[k].h) : out[posted[k].h][i].seq = k

\* the k-th accepted POST is still in a buffer of the handler it reached
Buffered(k) ==
    \E t \in DOMAIN _events[posted[k].h] :
        \E i \in 1..Len(_events[posted[k].h][t]) :
            _events[posted[k].h][t][i].seq = k

\* the accepted POSTs that reached handler h
PostsOf(h) == {k \in 1..Len(posted) : posted[k].h = h}

\* a close was accepted for handler h ahead of the k-th accepted POST
CloseAhead(k) ==
    \E j \in PostsOf(posted[k].h) : j < k /\ posted[j].action = FINISH

\* handler h's subscription was ended by a dispatched close
CloseDispatched(h) == Polled(h) /\ ~Registered(h) /\ ~closed[h]

\* handler h's subscription has ended: its peer disconnected, or a close
\* accepted for it has left the buffer
SubscriptionEnded(h) ==
    /\ Polled(h)
    /\ \/ closed[h]
       \/ \E k \in PostsOf(h) : posted[k].action = FINISH /\ ~Buffered(k)

\* C1: at most one subscriber connection is registered per target: no two
\* handlers are registered for the same target at the same time.
C1_OneSubscriberPerTarget ==
    \A g, h \in Handlers :
        (g # h /\ Registered(g) /\ Registered(h))
            => _connected[g][g] # _connected[h][h]

\* C2: on every stream the event frames appear in the order in which their
\* POSTs were accepted.
C2_EmittedInPostOrder ==
    \A h \in Handlers : \A i, j \in EventFrames(h) :
        i < j => out[h][i].seq < out[h][j].seq

\* C3: once every scheduled dispatch has run, each accepted POST of an
\* ordinary action has a frame on its subscriber's stream, unless a close was
\* accepted ahead of it, its subscriber disconnected, or the stream was
\* finished by an error answer while it was registered.
C3_AcceptedIsEmitted ==
    callbacks = <<>> =>
        \A k \in 1..Len(posted) :
            posted[k].action \notin {RETRY, FINISH} =>
                \/ Emitted(k)
                \/ CloseAhead(k)
                \/ closed[posted[k].h]
                \/ (finished[posted[k].h] /\ Registered(posted[k].h))

\* C4: every event frame is the frame of an accepted POST that reached the
\* handler of that stream, with its action, and no accepted POST has two
\* frames, on one stream or on two.
C4_NoDuplicateNoSpurious ==
    /\ \A h \in Handlers : \A i \in EventFrames(h) :
          /\ out[h][i].seq \in PostsOf(h)
          /\ out[h][i].event = posted[out[h][i].seq].action
    /\ \A g, h \in Handlers : \A i \in EventFrames(g), j \in EventFrames(h) :
          out[g][i].seq = out[h][j].seq => (g = h /\ i = j)

\* C4's case: two events were emitted on one stream, its buffer is empty and
\* a dispatch callback scheduled for it is still pending
C4_Witness ==
    \E h \in Handlers :
        /\ Cardinality(EventFrames(h)) >= 2
        /\ Registered(h)
        /\ _events[h][_connected[h][h]] = <<>>
        /\ \E i \in 1..Len(callbacks) : callbacks[i] = h

\* C5: when a close has been dispatched for a handler, every ordinary event
\* accepted for it before its first close has a frame on its stream, those
\* frames are in the order of acceptance, and nothing accepted after that
\* close has a frame.
C5_EventsBeforeCloseEmitted ==
    \A h \in Handlers :
        CloseDispatched(h) =>
            \A c \in PostsOf(h) :
                (posted[c].action = FINISH /\ ~CloseAhead(c)) =>
                    /\ \A k \in PostsOf(h) :
                          (k < c /\ posted[k].action = "ping") => Emitted(k)
                    /\ \A i, j \in EventFrames(h) :
                          i < j => out[h][i].seq < out[h][j].seq
                    /\ \A i \in EventFrames(h) : out[h][i].seq < c

C7_Allowed ==
    IF event_class \in {"StringEvent", "JSONEvent"}
    THEN {"ping", "close"}
    ELSE {"ping", "retry", "close"}
C7_Rejected(b) ==
    event_class \in {"JSONEvent", "JSONIdEvent"} /\ ~json_valid(b)

C8_RefusedPostChangesNothing ==
    [][ \A h \in Handlers, a \in PostActions, t \in Targets, b \in Bodies :
          (post(h, a, t, b) /\ resp'.status # 200) =>
              /\ _connected' = _connected
              /\ _events' = _events
              /\ _retry' = _retry
              /\ EventId_cnt' = EventId_cnt
              /\ callbacks' = callbacks
              /\ out' = out ]_vars

\* C8's case: a POST was refused with 400 by a registered handler that holds
\* a buffered event
C8_Witness ==
    /\ resp.method = "POST"
    /\ resp.status = 400
    /\ Registered(resp.h)
    /\ _events[resp.h][_connected[resp.h][resp.h]] # <<>>

\* the decimal value of the retry accepted as the j-th POST, if it has one
RetryLine(j) ==
    get_value(event_class, [value |-> set_value(event_class, posted[j].body)])[1]

\* C9: if a retry with decimal payload n was accepted for a handler and then
\* an ordinary event, with no other retry between them, then on that stream
\* retry: n is written no later than in the frame of that event.
C9_RetryNoLaterThanNextEvent ==
    \A h \in Handlers : \A j, k \in PostsOf(h) :
        ( /\ j < k
          /\ posted[j].action = RETRY
          /\ int_ok(RetryLine(j))
          /\ posted[k].action = "ping"
          /\ \A m \in PostsOf(h) : (j < m /\ m < k) => posted[m].action # RETRY )
        => \A p \in EventFrames(h) :
              out[h][p].seq = k =>
                  \E q \in 1..p : out[h][q].retry = Some(int_val(RetryLine(j)))

\* C10: no event frame carries the action retry.
C10_RetryIsNeverAFrame ==
    \A h \in Handlers : \A i \in EventFrames(h) : out[h][i].event # RETRY

\* C11: with an id-enabled event class, the ids written over the lifetime of
\* the process, all handlers together and in order of emission, are
\* 0, 1, 2, ...: the i-th frame emitted carries the id i - 1.
C11_IdsCountFromZero ==
    IsIdClass(event_class) =>
        \A i \in 1..Len(ids) : ids[i] = IdText(i - 1)

\* C12: with an id-enabled event class, every event takes the next value of
\* the counter when it is constructed: the counter equals the number of
\* events constructed so far, and every buffered event holds its id.
C12_IdTakenAtConstruction ==
    IsIdClass(event_class) =>
        /\ EventId_cnt = Len(posted)
        /\ \A h \in Handlers : \A t \in DOMAIN _events[h] :
              \A i \in 1..Len(_events[h][t]) : _events[h][t][i].cnt # None

\* C13: with an event class that has no id generation, no event frame
\* carries an id: line.
C13_NoIdLineWithoutIdClass ==
    ~IsIdClass(event_class) =>
        \A h \in Handlers : \A i \in EventFrames(h) : out[h][i].id = None

\* a line of the stream: its field name ("" for a comment), or the empty line
Line(field) == [field |-> field]
BlankLine == Line("blank")

\* the lines written for a frame, without the empty line that ends it
FrameLines_unterminated(frame) ==
    IF frame.kind = "keepalive"
    THEN <<Line("")>>
    ELSE (IF frame.id # None THEN <<Line("id")>> ELSE <<>>)
         \o (IF frame.retry # None THEN <<Line("retry")>> ELSE <<>>)
         \o <<Line("event")>>
         \o [i \in 1..Len(frame.data) |-> Line("data")]

\* the lines push and push_keepalive write for a frame, in order
FrameLines(frame) == FrameLines_unterminated(frame) \o <<BlankLine>>

\* the lines of a sequence of frames, and the lines on handler h's stream
RECURSIVE LinesOf(_)
LinesOf(frames) ==
    IF frames = <<>> THEN <<>>
    ELSE FrameLines(Head(frames)) \o LinesOf(Tail(frames))
Stream(h) == LinesOf(out[h])

C15_CloseIsIdempotent ==
    [][ \A h \in Handlers :
          LET once == set_disconnected(h, Self(h))
              twice == set_disconnected(h, once)
          IN  /\ ~once.raised
              /\ ~twice.raised
              /\ twice = once
              /\ ~Registered(h) => once = Self(h)
              /\ on_connection_close(h) =>
                    /\ \A g \in Handlers \ {h} :
                          /\ _connected'[g] = _connected[g]
                          /\ _events'[g] = _events[g]
                          /\ running'[g] = running[g]
                    /\ ~Registered(h) =>
                          UNCHANGED <<_connected, _events, running>> ]_vars

\* C15's case: the only requests were a poll GET and an accepted close for
\* its handler; the close was dispatched, then the peer closed the socket
C15_Witness ==
    \E h \in Handlers :
        /\ nreq = 2
        /\ Len(posted) = 1
        /\ posted[1].h = h
        /\ posted[1].action = FINISH
        /\ finished[h]
        /\ closed[h]

\* target t is a value of some handler's registry
InRegistry(t) == \E h \in Handlers : is_connected(Self(h), t)

\* handler h holds an open subscriber stream for target t
OpenStream(h, t) == target[h] = Some(t) /\ ~finished[h] /\ ~closed[h]

\* C16: in every state a target is in the registry if and only if exactly
\* one open subscriber stream exists for it.
C16_RegisteredIffOneOpenStream ==
    \A t \in Targets :
        InRegistry(t) <=> Cardinality({h \in Handlers : OpenStream(h, t)}) = 1

\* C17: a handler on whose response a write raised has its subscription
\* closed: it is not registered, holds no buffer and its timer is stopped.
C17_WriteFaultClosesSubscription ==
    \A h \in Handlers :
        faulted[h] =>
            /\ ~Registered(h)
            /\ DOMAIN _events[h] = {}
            /\ ~running[h]

\* what handle_stream leaves when it is given the whole stream as one chunk
WholeStream ==
    handle_stream([ data_partial |-> None, last_event_id |-> None,
                    retry_timeout |-> retry, delivered |-> <<>>,
                    raised |-> FALSE, event |-> NewEvent ], stream)

\* the one event of the stream PingHi
PingHiEvent ==
    [name |-> Some(<<"p", "i", "n", "g">>), data |-> Some(<<"h", "i">>), id |-> None]

\* C18: when the client has received every byte of its first response, in
\* whatever chunks, it has delivered the events, and holds the last_event_id
\* and the retry_timeout, that the same bytes given as one chunk leave, and
\* it has raised only if that one chunk raises; for the stream PingHi it has
\* delivered exactly the event ping with data hi.
C18_ChunkingIsIrrelevant ==
    (attempts = 1 /\ pc = "running" /\ wire = <<>>) =>
        /\ delivered = WholeStream.delivered
        /\ last_event_id = WholeStream.last_event_id
        /\ retry_timeout = WholeStream.retry_timeout
        /\ client_raised = WholeStream.raised
        /\ stream = PingHi => delivered = <<PingHiEvent>>

C20_Reconnect == {200, 500, 502, 503, 504}

C21_HeadersOfEveryGet ==
    [][ /\ \A i \in 1..Len(sent) : sent[i].Accept = "text/event-stream"
        /\ Len(sent) >= 1 => sent[1].LastEventID = None
        /\ (Len(sent') = Len(sent) + 1 /\ last_event_id # None)
              => sent'[Len(sent')].LastEventID = last_event_id
      ]_vars

\* the lines of a value joined by \n
RECURSIVE Join(_)
Join(lines) ==
    IF Len(lines) = 1 THEN lines[1]
    ELSE lines[1] \o <<NL>> \o Join(Tail(lines))

\* C22: with StringEvent, the data lines of the frame of an accepted POST,
\* joined by \n, are its payload, and when the client has received the bytes
\* of that one frame as one chunk it has delivered exactly one event, whose
\* name is the action and whose data is the payload.
C22_StringPayloadRoundTrip ==
    event_class = "StringEvent" =>
        \A h \in Handlers : \A i \in EventFrames(h) :
            /\ Join(out[h][i].data) = posted[out[h][i].seq].body
            /\ ( /\ Len(out[h]) = 1
                 /\ stream = BytesOf(out[h])
                 /\ pc = "running"
                 /\ wire = <<>> )
               => /\ Len(delivered) = 1
                  /\ delivered[1].name = Some(ActionChars(out[h][i].event))
                  /\ delivered[1].data = Some(posted[out[h][i].seq].body)

\* handler h's stream ends with a keepalive comment
KeepaliveLast(frames) ==
    frames # <<>> /\ frames[Len(frames)].kind = "keepalive"

\* C23: with a keepalive period, a handler's timer runs exactly while the
\* handler is registered, so it is started by a successful open only and
\* stopped by every close; a keepalive comment is written only on the stream
\* of a registered handler; without a period no timer runs and no keepalive
\* comment is ever written.
C23_TimerFollowsSubscription ==
    [][ /\ keepalive # 0 => \A h \in Handlers : running[h] <=> Registered(h)
        /\ keepalive = 0 =>
               \A h \in Handlers :
                   /\ ~running[h]
                   /\ \A i \in 1..Len(out[h]) : out[h][i].kind # "keepalive"
        /\ \A h \in Handlers :
               (Len(out'[h]) = Len(out[h]) + 1 /\ KeepaliveLast(out'[h]))
                   => Registered(h) /\ ~closed[h]
      ]_vars

\* a subscriber that received a keepalive comment has closed: its timer is
\* stopped and its handler is not registered
C23_Witness ==
    /\ keepalive # 0
    /\ \E h \in Handlers :
           /\ closed[h]
           /\ ~running[h]
           /\ ~Registered(h)
           /\ \E i \in 1..Len(out[h]) : out[h][i].kind = "keepalive"

\* the target of the handler whose callback is next is not connected
TargetGone(h) ==
    target[h] = None \/ ~is_connected(Self(h), target[h][1])

\* C24: a dispatch callback that runs when the target of its handler is no
\* longer connected writes nothing, raises nothing and leaves the registry,
\* every buffer and every response as they are: it only leaves the queue.
C24_LateCallbackDoesNothing ==
    [][ ( /\ callbacks # <<>>
          /\ callbacks' = Tail(callbacks)
          /\ TargetGone(Head(callbacks)) )
        => UNCHANGED << _connected, _events, _retry, target, running, finished,
                        closed, out, EventId_cnt, resp, posted, ids, faulted >>
      ]_vars

\* a ping was accepted for a subscriber that closed before the dispatch: the
\* callback has run and the event was never written
C24_Witness ==
    /\ callbacks = <<>>
    /\ \E h \in Handlers :
           /\ closed[h]
           /\ ~finished[h]
           /\ ~faulted[h]
           /\ TargetGone(h)
           /\ \E k \in PostsOf(h) : posted[k].action = "ping" /\ ~Emitted(k)

\* the retry line of each frame pushed in a run of dispatch steps, when the
\* slot holds `pending` before the run
RECURSIVE RetryLines(_, _)
RetryLines(log, pending) ==
    IF log = <<>> THEN <<>>
    ELSE IF Head(log) = None
         THEN <<pending>> \o RetryLines(Tail(log), None)
         ELSE RetryLines(Tail(log), Head(log))

\* the retry lines of the event frames written on handler h's stream
RetryOfFrames(h) ==
    LET IsEvent(f) == f.kind = "event"
        frames == SelectSeq(out[h], IsEvent)
    IN  [i \in 1..Len(frames) |-> frames[i].retry]

\* C25: on every stream, an event frame carries a retry line exactly when a
\* retry value was processed since the frame before it, and the line holds
\* the value processed last; so a processed value is written in the next
\* frame emitted and in no later one.
C25_RetryInNextFrameOnly ==
    \A h \in Handlers : RetryOfFrames(h) = RetryLines(dispatched[h], None)

\* two different retry values were processed in a row, a frame was pushed
\* after them and another frame after that one
C25_Witness ==
    \E h \in Handlers : \E j \in 1..Len(dispatched[h]) :
        /\ j + 3 <= Len(dispatched[h])
        /\ dispatched[h][j] # None
        /\ dispatched[h][j + 1] # None
        /\ dispatched[h][j] # dispatched[h][j + 1]
        /\ dispatched[h][j + 2] = None
        /\ dispatched[h][j + 3] = None

\* the two events of the stream TwoFrames
TwoFramesEvents ==
    << [name |-> Some(<<"a">>), data |-> None, id |-> Some(<<"7">>)],
       [name |-> Some(<<"b">>), data |-> None, id |-> None] >>

\* C26: when the client is handed the two complete frames of the stream
\* TwoFrames as one chunk, it delivers the event of each frame, in stream
\* order, each with the fields of its own frame only, and does not raise.
C26_OneEventPerFrameOfAChunk ==
    [][ ( /\ pc = "running"
          /\ stream = TwoFrames
          /\ wire = TwoFrames
          /\ wire' = <<>>
          /\ data_partial = None
          /\ ~client_raised )
        => /\ delivered' = delivered \o TwoFramesEvents
           /\ ~client_raised'
      ]_vars

\* the accepted POSTs whose events lie in a buffer of handler g
BufferedAt(g) ==
    UNION { { _events[g][t][i].seq : i \in 1..Len(_events[g][t]) } :
                t \in DOMAIN _events[g] }

\* the accepted POSTs whose events were written on handler g's stream
WrittenAt(g) == { out[g][i].seq : i \in EventFrames(g) }

\* C27: a subscription that has ended, by a dispatched close or by the
\* disconnection of its client, has no buffer left, so its undrained events
\* are gone; a handler that becomes registered starts with empty buffers;
\* and a subscription never holds or is written an event that was POSTed
\* during an ended subscription for the same target.
C27_BufferDiesWithSubscription ==
    [][ /\ \A h \in Handlers : SubscriptionEnded(h) => _events[h] = EmptyDict
        /\ \A h \in Handlers :
               (~Registered(h) /\ h \in DOMAIN _connected'[h])
                   => \A t \in DOMAIN _events'[h] : _events'[h][t] = <<>>
        /\ \A h, g \in Handlers :
               (h # g /\ SubscriptionEnded(h) /\ Polled(g)
                      /\ target[h] = target[g])
                   => (BufferedAt(g) \cup WrittenAt(g)) \cap PostsOf(h) = {}
      ]_vars

\* a subscriber closed with an accepted ping still undrained, the ping was
\* discarded, and another handler is now registered for the same target
C27_Witness ==
    \E h, g \in Handlers :
        /\ h # g
        /\ closed[h]
        /\ target[h] = target[g]
        /\ Registered(g)
        /\ BufferedAt(g) = {}
        /\ \E k \in PostsOf(h) :
               posted[k].action = "ping" /\ ~Emitted(k) /\ ~Buffered(k)

\* every id reported so far, with the event it was reported for: the ids read
\* and the ids written on the streams
ReportedIds ==
    id_reads \cup
    UNION { { [seq |-> out[h][i].seq, id |-> out[h][i].id[1].n] :
                  i \in EventFrames(h) } : h \in Handlers }

\* C28: with an id class, all the ids reported for one event, read or written
\* and however the reads of different events interleave, are the same value,
\* and the ids reported for two different events differ, across all targets.
C28_IdsStableAndUnique ==
    IsIdClass(event_class) =>
        \A a, b \in ReportedIds : (a.seq = b.seq) <=> (a.id = b.id)

\* the ids of two events for different targets were read while the events
\* were buffered, in the order opposite to their acceptance, and both events
\* were written afterwards
C28_Witness ==
    \E a, b \in id_reads :
        /\ a.seq < b.seq
        /\ b.id < a.id
        /\ posted[a.seq].target # posted[b.seq].target
        /\ Emitted(a.seq)
        /\ Emitted(b.seq)

\* C29: every event frame is written on the stream of a handler subscribed
\* for the target the event was accepted for, and never on the response of
\* the handler that served the POST which submitted the event.
C29_WrittenToTheSubscriberOnly ==
    \A h \in Handlers : \A i \in EventFrames(h) :
        /\ target[h] = Some(posted[out[h][i].seq].target)
        /\ posted[out[h][i].seq].h # h

=============================================================================
